---------------------------- MODULE Spec2Model ----------------------------
(***************************************************************************)
(* RepoRadar: the dual-vector merge-rerank search (VectorStore.            *)
(* search_similar and the /api/search flow) and the indexing orchestrator  *)
(* (index_single_repo, VectorStore.upsert_repo), batch indexing, the       *)
(* token-bucket limiter, the on-demand indexing of the search flow, and    *)
(* the web client: the App component, SearchInput, WeightSliders, the api  *)
(* client and the useTheme hook.                                           *)
(*                                                                         *)
(* Numbers.  Cosine scores and weights are decimal fractions; they are     *)
(* kept as integers in hundredths (0.9 is 90, 0.7 is 70), so a weighted    *)
(* final score and min_score are in ten-thousandths (0.69 is 6900).        *)
(* Products and sums of hundredths are exact in this scale.                *)
(***************************************************************************)
EXTENDS Integers, Sequences, FiniteSets

(***************************************************************************)
(* Bounds of the model.                                                    *)
(***************************************************************************)
\* repositories known to the vector store are 1..MaxId
MaxId == 4
\* the requested result limit is 1 or MaxLimit
MaxLimit == 3
\* star counts range over 1..MaxStars
MaxStars == 2

\* concurrent callers of indexRepository are 1..MaxCallers
MaxCallers == 2
\* repositories indexRepository is called for are 1..MaxRepos
MaxRepos == 1
\* the clock (days) runs up to MaxTime
MaxTime == 8

\* index_batch is given at most MaxBatch identifiers
MaxBatch == 3
\* and runs them on a pool of MaxWorkers workers
MaxWorkers == 2

\* the token bucket holds at most Capacity tokens
Capacity == 2
\* it gains one token every TokenUnit ticks; tokens are counted in
\* TokenUnit-ths, so the refill is continuous at tick resolution
TokenUnit == 2
\* the limiter's clock runs up to MaxTicks
MaxTicks == 8

\* the search flow knows the repositories 1..MaxFlowRepos
MaxFlowRepos == 3

\* SearchInput's text has at most MaxLen characters
MaxLen == 3

\* the slider is moved at most MaxSlides steps while a search is in flight
MaxSlides == 2

\* useTheme is toggled at most MaxToggles times between two mounts
MaxToggles == 3

Ids == 1..MaxId
Callers == 1..MaxCallers
RepoIds == 1..MaxRepos

\* INDEX_STALE_DAYS=7: re-index repos older than this
STALE_DAYS == 7
\* the clock advances between calls, to the threshold or past it
TickDays == {STALE_DAYS, STALE_DAYS + 1}
\* step 2 of the indexing flow: repo info, README, languages, dependencies
FetchKinds == {"metadata", "readme", "languages", "dependencies"}
NumFetches == Cardinality(FetchKinds)

\* cosine score of a repository against itself, in hundredths (1.0)
SelfScore == 100
\* cosine scores (hundredths) of another repository against the query
ScoreVals == {20, 90}
\* (weight_purpose, weight_stack) pairs (hundredths) a request may carry
WeightPairs == {<<70, 30>>, <<100, 0>>, <<50, 50>>}
\* min_score values (ten-thousandths): 0.3 is the default
MinScoreVals == {0, 3000, 6900, 7000}
\* the result limits a request may carry
Limits == {1, MaxLimit}
\* the repositories a search is asked for
QueryIds == {1}

\* fetch_limit = limit * 3
OVERSAMPLE == 3

Min(a, b) == IF a <= b THEN a ELSE b

VARIABLES
    \* ---- search request (POST /api/search) ----
    spc,              \* position of the search request
    points,           \* the collection: id -> [purpose, stack, stars], the two
                      \* cosine scores being those against the query vectors
    qid,              \* the query repository
    w_purpose, w_stack, limit, min_score,
    purpose_results,  \* hits of the search in the "purpose" vector space
    stack_results,    \* hits of the search in the "stack" vector space
    scores,           \* the merge dict, in insertion order
    ranked,           \* the filtered, sorted list inside search_similar
    returned,         \* the value search_similar returned
    results,          \* the result list of the response
    \* ---- indexing (index_single_repo) and the collection ----
    now,              \* the clock, in days
    store,            \* the points of the collection: [id, purpose_vector,
                      \* stack_vector, indexed_at]; a vector is named by the
                      \* day of the indexing attempt that produced it
    inflight,         \* identifiers with an in-flight marker
    upserts,          \* id -> pipeline executions that upserted
    ipc,              \* caller -> position in index_single_repo
    target,           \* caller -> the repository of the call
    fetched,          \* caller -> how many of the fetches have completed
    vecs,             \* caller -> the two vectors of the attempt
    result,           \* caller -> the IndexResult
    calls,            \* caller -> external calls made by this call
    hist,             \* caller -> what the call met and did
    observed,         \* what the last reader of the store saw
    \* ---- batch indexing (index_batch) ----
    bpc,              \* position of the batch
    worklist,         \* the identifiers given to index_batch
    statuses,         \* item -> "pending", "running" or its IndexResult
    assigned,         \* worker -> the item it is indexing, 0 when free
    batch_result,     \* the BatchIndexResult
    \* ---- the token-bucket limiter ----
    clock,            \* the limiter's time, in ticks
    tokens,           \* available tokens, in TokenUnit-ths of a token
    last_refill,      \* tick of the last refill
    outcome,          \* outcome of the last acquire
    since_last,       \* ticks since the previous acquire, capped
    paced,            \* acquires made exactly one refill interval after
                      \* the previous one, so far
    paced_limited,    \* one of them was RateLimited
    burst,            \* acquires made at the present instant
    burst_limited,    \* and how many of them were RateLimited
    \* ---- the search flow with on-demand indexing ----
    fpc,              \* position of the request
    fquery,           \* the query repository of the request
    indexed,          \* the repositories that have stored vectors
    on_demand,        \* the request needed on-demand indexing
    index_result,     \* the IndexResult of the on-demand attempt
    response,         \* the response of the request
    \* ---- App, SearchInput, WeightSliders ----
    url,              \* SearchInput's text
    loading, error, searchResult, purposeWeight,   \* App's state
    outstanding,      \* the search requests in flight, oldest first
    slides,           \* slider steps made since the request was sent
    lastSubmit,       \* what the last submit of the form did
    lastOutcome,      \* how the last search request ended
    \* ---- the api client (searchRepos, indexRepo) ----
    kpc,              \* position of the call
    kfn,              \* the function called
    kurl,             \* its repository argument
    fetched_response, \* what fetch resolved or rejected with
    client_outcome,   \* what the call returned or threw
    \* ---- useTheme ----
    mounted,          \* the hook is mounted
    theme,            \* the hook's state
    saved,            \* localStorage's value under 'reporadar-theme'
    prefersDark,      \* matchMedia('(prefers-color-scheme: dark)').matches
    data_theme,       \* the data-theme attribute of the document element
    themeHist,        \* the themes since the mount, oldest first
    lastEvent         \* the last thing that happened to the hook

indexVars == <<now, store, inflight, upserts, ipc, target, fetched, vecs,
               result, calls, hist, observed>>

searchVars == <<spc, points, qid, w_purpose, w_stack, limit, min_score,
                purpose_results, stack_results, scores, ranked, returned,
                results>>

batchVars == <<bpc, worklist, statuses, assigned, batch_result>>

bucketVars == <<clock, tokens, last_refill, outcome, since_last, paced,
                paced_limited, burst, burst_limited>>

flowVars == <<fpc, fquery, indexed, on_demand, index_result, response>>

appVars == <<url, loading, error, searchResult, purposeWeight, outstanding,
             slides, lastSubmit, lastOutcome>>

clientVars == <<kpc, kfn, kurl, fetched_response, client_outcome>>

themeVars == <<mounted, theme, saved, prefersDark, data_theme, themeHist,
               lastEvent>>

vars == <<searchVars, indexVars, batchVars, bucketVars, flowVars, appVars,
          clientVars, themeVars>>

\* what each component leaves alone
nonSearchVars == <<indexVars, batchVars, bucketVars, flowVars, appVars,
                   clientVars, themeVars>>
nonIndexVars == <<searchVars, batchVars, bucketVars, flowVars, appVars,
                  clientVars, themeVars>>
nonBatchVars == <<searchVars, indexVars, bucketVars, flowVars, appVars,
                  clientVars, themeVars>>
nonBucketVars == <<searchVars, indexVars, batchVars, flowVars, appVars,
                   clientVars, themeVars>>
nonFlowVars == <<searchVars, indexVars, batchVars, bucketVars, appVars,
                 clientVars, themeVars>>
nonAppVars == <<searchVars, indexVars, batchVars, bucketVars, flowVars,
                clientVars, themeVars>>
nonClientVars == <<searchVars, indexVars, batchVars, bucketVars, flowVars,
                   appVars, themeVars>>
nonThemeVars == <<searchVars, indexVars, batchVars, bucketVars, flowVars,
                  appVars, clientVars>>

(***************************************************************************)
(* The vector store's single-space nearest-neighbour query.                *)
(***************************************************************************)
\* the n nearest of the points S under the scores sim, best first; the
\* order among equal scores is the store's choice, so every consistent
\* answer is in the set
RECURSIVE Nearest(_, _, _)
Nearest(S, sim, n) ==
    IF n = 0 \/ S = {} THEN {<<>>}
    ELSE UNION {{<<x>> \o t : t \in Nearest(S \ {x}, sim, n - 1)} :
                  x \in {y \in S : \A z \in S : sim[y] >= sim[z]}}

\* client.search(collection_name, query_vector=(space, vec), limit=k)
ClientSearch(pts, space, k) ==
    LET sim == [i \in DOMAIN pts |->
                  IF space = "purpose" THEN pts[i].purpose ELSE pts[i].stack]
    IN  {[i \in 1..Len(h) |-> [id |-> h[i], score |-> sim[h[i]],
                               payload |-> [stars |-> pts[h[i]].stars]]] :
            h \in Nearest(DOMAIN pts, sim, k)}

(***************************************************************************)
(* search_similar: merge, weighted score, filter, sort, truncate.          *)
(***************************************************************************)
IndexOfId(seq, id) ==
    IF \E i \in 1..Len(seq) : seq[i].id = id
    THEN CHOOSE i \in 1..Len(seq) : seq[i].id = id
    ELSE 0

\* for r in purpose_results: scores[r.id] = {purpose: r.score, stack: 0.0}
MergePurpose(pr) ==
    [i \in 1..Len(pr) |->
        [id |-> pr[i].id, purpose |-> pr[i].score, stack |-> 0,
         payload |-> pr[i].payload]]

\* a merge that keeps only what the purpose search returned
RECURSIVE MergeStackDropping(_, _)
MergeStackDropping(sc, sr) ==
    IF sr = <<>> THEN sc
    ELSE LET r == Head(sr)
             k == IndexOfId(sc, r.id)
         IN  IF k # 0
             THEN MergeStackDropping([sc EXCEPT ![k].stack = r.score], Tail(sr))
             ELSE MergeStackDropping(sc, Tail(sr))

\* for r in stack_results: set the stack score of a known id, or insert
\* {purpose: 0.0, stack: r.score} at the end of the dict
RECURSIVE MergeStack(_, _)
MergeStack(sc, sr) ==
    IF sr = <<>> THEN sc
    ELSE LET r == Head(sr)
             k == IndexOfId(sc, r.id)
         IN  IF k # 0
             THEN MergeStack([sc EXCEPT ![k].stack = r.score], Tail(sr))
             ELSE MergeStack(Append(sc, [id |-> r.id, purpose |-> 0,
                                         stack |-> r.score,
                                         payload |-> r.payload]),
                             Tail(sr))

Merge(pr, sr) == MergeStack(MergePurpose(pr), sr)

\* the two weights applied to the wrong dimensions
FinalScoreSwapped(wp, ws, data) == wp * data.stack + ws * data.purpose

\* final = w_purpose * data["purpose"] + w_stack * data["stack"]
FinalScore(wp, ws, data) == wp * data.purpose + ws * data.stack

\* a strict comparison against min_score
KeepStrict(final, ms) == final > ms

\* if final >= min_score: ranked.append(SearchResult(...))
Keep(final, ms) == final >= ms

RECURSIVE Rank(_, _, _, _)
Rank(sc, wp, ws, ms) ==
    IF sc = <<>> THEN <<>>
    ELSE LET data == Head(sc)
             final == FinalScore(wp, ws, data)
             rest == Rank(Tail(sc), wp, ws, ms)
         IN  IF Keep(final, ms)
             THEN <<[id |-> data.id, score |-> final,
                     payload |-> data.payload]>> \o rest
             ELSE rest

\* a sort without reverse=True
BeforeAscending(a, b) == a.score < b.score

\* a sort by key=score, reverse=True compares scores only
Before(a, b) == a.score > b.score

\* list.sort is stable: an element goes behind every element it is not
\* strictly before
RECURSIVE InsertSorted(_, _)
InsertSorted(seq, x) ==
    IF seq = <<>> THEN <<x>>
    ELSE IF Before(x, Head(seq)) THEN <<x>> \o seq
         ELSE <<Head(seq)>> \o InsertSorted(Tail(seq), x)

RECURSIVE SortRanked(_)
SortRanked(seq) ==
    IF seq = <<>> THEN <<>>
    ELSE InsertSorted(SortRanked(SubSeq(seq, 1, Len(seq) - 1)), seq[Len(seq)])

\* return ranked[:limit]
Truncate(seq, lim) == SubSeq(seq, 1, Min(lim, Len(seq)))

\* a response that is the list search_similar returned
ExcludeNothing(seq, q) == seq

\* search flow step 5: exclude the query repo itself from results
ExcludeQuery(seq, q) == SelectSeq(seq, LAMBDA r : r.id # q)

(***************************************************************************)
(* Initial state.                                                          *)
(***************************************************************************)
SearchInit ==
    /\ spc = "idle"
    /\ points = [i \in Ids |-> [purpose |-> SelfScore, stack |-> SelfScore,
                                stars |-> 1]]
    /\ qid = 1
    /\ w_purpose = 70
    /\ w_stack = 30
    /\ limit = 1
    /\ min_score = 3000
    /\ purpose_results = <<>>
    /\ stack_results = <<>>
    /\ scores = <<>>
    /\ ranked = <<>>
    /\ returned = <<>>
    /\ results = <<>>

NoVecs == [purpose |-> 0, stack |-> 0]
NoCalls == [fetch |-> 0, embed |-> 0, upsert |-> 0]
NoHist == [ran |-> FALSE, young |-> FALSE, base |-> 0, rec |-> {}]

IndexInit ==
    /\ now = 0
    /\ store = {}
    /\ inflight = {}
    /\ upserts = [i \in RepoIds |-> 0]
    /\ ipc = [c \in Callers |-> "idle"]
    /\ target = [c \in Callers |-> 1]
    /\ fetched = [c \in Callers |-> 0]
    /\ vecs = [c \in Callers |-> NoVecs]
    /\ result = [c \in Callers |-> "none"]
    /\ calls = [c \in Callers |-> NoCalls]
    /\ hist = [c \in Callers |-> NoHist]
    /\ observed = {}

Workers == 1..MaxWorkers

\* an optional value (null or a value) is a sequence of length 0 or 1
None == <<>>
Some(x) == <<x>>

NoBatchResult == [statuses |-> <<>>, succeeded |-> 0, failed |-> 0]

BatchInit ==
    /\ bpc = "idle"
    /\ worklist = <<>>
    /\ statuses = <<>>
    /\ assigned = [w \in Workers |-> 0]
    /\ batch_result = NoBatchResult

\* the limiter is created once at process start, with a full bucket
BucketInit ==
    /\ clock = 0
    /\ tokens = Capacity * TokenUnit
    /\ last_refill = 0
    /\ outcome = "none"
    /\ since_last = TokenUnit
    /\ paced = 0
    /\ paced_limited = FALSE
    /\ burst = 0
    /\ burst_limited = 0

NoResponse == [kind |-> "none", results |-> {}, detail |-> ""]

FlowInit ==
    /\ fpc = "idle"
    /\ fquery = 1
    /\ indexed = {}
    /\ on_demand = FALSE
    /\ index_result = "none"
    /\ response = NoResponse

NoSubmit == [fired |-> FALSE, text |-> <<>>, called |-> FALSE, arg |-> <<>>,
             alert |-> FALSE, results |-> FALSE]
NoOutcome == [kind |-> "none", response |-> None, message |-> None,
              detail |-> None]

\* useState(false), useState(null), useState(null), useState(0.7) and
\* SearchInput's useState("")
AppInit ==
    /\ url = <<>>
    /\ loading = FALSE
    /\ error = None
    /\ searchResult = None
    /\ purposeWeight = 70
    /\ outstanding = <<>>
    /\ slides = 0
    /\ lastSubmit = NoSubmit
    /\ lastOutcome = NoOutcome

NoFetch == [kind |-> "none", ok |-> FALSE, json |-> FALSE, detail |-> None,
            data |-> 0, message |-> ""]
NoClientOutcome == [kind |-> "none", value |-> 0, message |-> ""]

ClientInit ==
    /\ kpc = "idle"
    /\ kfn = "searchRepos"
    /\ kurl = "bad"
    /\ fetched_response = NoFetch
    /\ client_outcome = NoClientOutcome

\* before the first mount: nothing saved, the system prefers light
ThemeInit ==
    /\ mounted = FALSE
    /\ theme = "light"
    /\ saved = "null"
    /\ prefersDark = FALSE
    /\ data_theme = "null"
    /\ themeHist = <<>>
    /\ lastEvent = "none"

Init ==
    /\ SearchInit
    /\ IndexInit
    /\ BatchInit
    /\ BucketInit
    /\ FlowInit
    /\ AppInit
    /\ ClientInit
    /\ ThemeInit

(***************************************************************************)
(* POST /api/search.                                                       *)
(***************************************************************************)
\* the collections a query can meet: every point has its two cosine scores
\* against the query's vectors, the query repository itself scores 1.0
\* the star count in the payload of a point
StarsOf(i) == 1 + (i % MaxStars)

Collections(q) ==
    {[i \in Ids |->
        IF i = q
        THEN [purpose |-> SelfScore, stack |-> SelfScore, stars |-> StarsOf(i)]
        ELSE [purpose |-> f[i][1], stack |-> f[i][2], stars |-> StarsOf(i)]] :
      f \in [Ids \ {q} -> ScoreVals \X ScoreVals]}

\* steps 1-3: the request arrives for an indexed query repository and its
\* vectors are retrieved
SearchRequest ==
    /\ spc = "idle"
    /\ \E q \in QueryIds : \E pts \in Collections(q) : \E w \in WeightPairs :
       \E lim \in Limits : \E ms \in MinScoreVals :
          /\ qid' = q
          /\ points' = pts
          /\ w_purpose' = w[1]
          /\ w_stack' = w[2]
          /\ limit' = lim
          /\ min_score' = ms
    /\ purpose_results' = <<>>
    /\ stack_results' = <<>>
    /\ scores' = <<>>
    /\ ranked' = <<>>
    /\ returned' = <<>>
    /\ results' = <<>>
    /\ spc' = "query_purpose"
    /\ UNCHANGED nonSearchVars

\* purpose_results = await self.client.search(("purpose", ...), fetch_limit)
QueryPurpose ==
    /\ spc = "query_purpose"
    /\ purpose_results' \in ClientSearch(points, "purpose", limit * OVERSAMPLE)
    /\ spc' = "query_stack"
    /\ UNCHANGED <<points, qid, w_purpose, w_stack, limit, min_score,
                   stack_results, scores, ranked, returned, results>>
    /\ UNCHANGED nonSearchVars

\* stack_results = await self.client.search(("stack", ...), fetch_limit),
\* then the merge, the scoring, the sort and the truncation of
\* search_similar, and steps 5-6 of the flow: exclude the query repo itself
\* from the results and return them
SearchSimilarReturn ==
    /\ spc = "query_stack"
    /\ \E sr \in ClientSearch(points, "stack", limit * OVERSAMPLE) :
          /\ stack_results' = sr
          /\ scores' = Merge(purpose_results, sr)
          /\ ranked' = SortRanked(Rank(scores', w_purpose, w_stack, min_score))
          /\ returned' = Truncate(ranked', limit)
          /\ results' = ExcludeQuery(returned', qid)
    /\ spc' = "done"
    /\ UNCHANGED <<points, qid, w_purpose, w_stack, limit, min_score,
                   purpose_results>>
    /\ UNCHANGED nonSearchVars

\* the next request
SearchDone ==
    /\ spc = "done"
    /\ spc' = "idle"
    /\ points' = [i \in Ids |-> [purpose |-> SelfScore, stack |-> SelfScore,
                                 stars |-> 1]]
    /\ qid' = 1
    /\ w_purpose' = 70
    /\ w_stack' = 30
    /\ limit' = 1
    /\ min_score' = 3000
    /\ purpose_results' = <<>>
    /\ stack_results' = <<>>
    /\ scores' = <<>>
    /\ ranked' = <<>>
    /\ returned' = <<>>
    /\ results' = <<>>
    /\ UNCHANGED nonSearchVars

Next ==
    \/ SearchRequest
    \/ QueryPurpose
    \/ SearchSimilarReturn
    \/ SearchDone

Spec == Init /\ [][Next]_vars

(***************************************************************************)
(* The collection and the staleness rule.                                  *)
(***************************************************************************)
PointsOf(st, id) == {p \in st : p.id = id}

\* a re-index that never skips
IsStaleAlways(indexed_at, t) == TRUE

\* a record is stale when now - indexed_at > staleness threshold
IsStale(indexed_at, t) == t - indexed_at > STALE_DAYS

\* step 1: the repo is already indexed recently
IsFresh(st, id, t) == \E p \in PointsOf(st, id) : ~IsStale(p.indexed_at, t)

\* an insert that leaves the old point of the key in place
UpsertWithoutDelete(st, id, pv, sv, t) ==
    st \cup {[id |-> id, purpose_vector |-> pv, stack_vector |-> sv,
              indexed_at |-> t]}

\* upsert_repo(repo_id, purpose_vector, stack_vector, payload): one write of
\* the point with both vectors, delete-then-insert for the key
UpsertPoints(st, id, pv, sv, t) ==
    (st \ PointsOf(st, id))
        \cup {[id |-> id, purpose_vector |-> pv, stack_vector |-> sv,
                indexed_at |-> t]}

(***************************************************************************)
(* index_single_repo, one call per caller.                                 *)
(***************************************************************************)
\* a call arrives
IndexCall(c, id) ==
    /\ ipc[c] = "idle"
    /\ ipc' = [ipc EXCEPT ![c] = "lookup"]
    /\ target' = [target EXCEPT ![c] = id]
    /\ hist' = [hist EXCEPT ![c] =
                  [ran |-> FALSE,
                   young |-> \E p \in PointsOf(store, id) :
                                now - p.indexed_at <= STALE_DAYS,
                   base |-> upserts[id],
                   rec |-> {}]]
    /\ UNCHANGED <<now, store, inflight, upserts, fetched, vecs,
                   result, calls, observed>>
    /\ UNCHANGED nonIndexVars

\* step 1: check if the repo is already indexed recently, skip if yes
Lookup(c) ==
    /\ ipc[c] = "lookup"
    /\ IF IsFresh(store, target[c], now)
       THEN /\ ipc' = [ipc EXCEPT ![c] = "done"]
            /\ result' = [result EXCEPT ![c] = "already_indexed"]
            /\ hist' = [hist EXCEPT ![c].rec = PointsOf(store, target[c])]
       ELSE /\ ipc' = [ipc EXCEPT ![c] = "acquire"]
            /\ UNCHANGED <<result, hist>>
    /\ UNCHANGED <<now, store, inflight, upserts, target, fetched,
                   vecs, calls, observed>>
    /\ UNCHANGED nonIndexVars

\* the exclusive per-identifier section: wait until no call for the
\* identifier is in flight, then set the in-flight marker
Acquire(c) ==
    /\ ipc[c] = "acquire"
    /\ target[c] \notin inflight
    /\ inflight' = inflight \cup {target[c]}
    /\ ipc' = [ipc EXCEPT ![c] = "recheck"]
    /\ UNCHANGED <<now, store, upserts, target, fetched, vecs,
                   result, calls, hist, observed>>
    /\ UNCHANGED nonIndexVars

\* a re-check that always runs the pipeline
RecheckSkips(st, id, t) == FALSE

\* after the wait: re-check freshness rather than re-run the pipeline
RecheckFresh(st, id, t) == IsFresh(st, id, t)

Recheck(c) ==
    /\ ipc[c] = "recheck"
    /\ IF RecheckFresh(store, target[c], now)
       THEN /\ ipc' = [ipc EXCEPT ![c] = "done"]
            /\ result' = [result EXCEPT ![c] = "already_indexed"]
            /\ hist' = [hist EXCEPT ![c].rec = PointsOf(store, target[c])]
            /\ inflight' = inflight \ {target[c]}
            /\ UNCHANGED fetched
       ELSE /\ ipc' = [ipc EXCEPT ![c] = "fetching"]
            /\ fetched' = [fetched EXCEPT ![c] = 0]
            /\ hist' = [hist EXCEPT ![c].ran = TRUE,
                                    ![c].rec = PointsOf(store, target[c])]
            /\ UNCHANGED <<result, inflight>>
    /\ UNCHANGED <<now, store, upserts, target, vecs, calls, observed>>
    /\ UNCHANGED nonIndexVars

\* step 2: one of the four fetches completes (a not-found resource is an
\* empty answer, not a failure); the four are independent reads and may
\* complete in any order, so the call keeps how many have completed
FetchOk(c) ==
    /\ ipc[c] = "fetching"
    /\ fetched[c] < NumFetches
    /\ fetched' = [fetched EXCEPT ![c] = @ + 1]
    /\ calls' = [calls EXCEPT ![c].fetch = @ + 1]
    /\ UNCHANGED <<now, store, inflight, upserts, ipc, target, vecs,
                   result, hist, observed>>
    /\ UNCHANGED nonIndexVars

\* step 2 fails: the attempt ends in Failed{FetchError}
FetchFail(c) ==
    /\ ipc[c] = "fetching"
    /\ fetched[c] < NumFetches
    /\ calls' = [calls EXCEPT ![c].fetch = @ + 1]
    /\ ipc' = [ipc EXCEPT ![c] = "done"]
    /\ result' = [result EXCEPT ![c] = "failed_fetch"]
    /\ inflight' = inflight \ {target[c]}
    /\ UNCHANGED <<now, store, upserts, target, fetched, vecs,
                   hist, observed>>
    /\ UNCHANGED nonIndexVars

\* a composition that starts as soon as the attempt fetches
ComposeEarly(c) ==
    /\ ipc[c] = "fetching"
    /\ ipc' = [ipc EXCEPT ![c] = "embedding"]
    /\ UNCHANGED <<now, store, inflight, upserts, target, fetched,
                   vecs, result, calls, hist, observed>>
    /\ UNCHANGED nonIndexVars

\* steps 3-4: clean the text fields, compose purpose_text and stack_text,
\* once the four fetches of step 2 have completed
Compose(c) ==
    /\ ipc[c] = "fetching"
    /\ fetched[c] = NumFetches
    /\ ipc' = [ipc EXCEPT ![c] = "embedding"]
    /\ UNCHANGED <<now, store, inflight, upserts, target, fetched,
                   vecs, result, calls, hist, observed>>
    /\ UNCHANGED nonIndexVars

\* the vectors of an attempt embed the texts fetched at that time; a
\* vector is named by the day of its attempt (1 is an attempt of day 0)
Embedding(t) == t + 1

\* step 5: generate both embedding vectors
EmbedOk(c) ==
    /\ ipc[c] = "embedding"
    /\ vecs' = [vecs EXCEPT ![c] = [purpose |-> Embedding(now),
                                     stack |-> Embedding(now)]]
    /\ calls' = [calls EXCEPT ![c].embed = @ + 1]
    /\ ipc' = [ipc EXCEPT ![c] = "upserting"]
    /\ UNCHANGED <<now, store, inflight, upserts, target, fetched,
                   result, hist, observed>>
    /\ UNCHANGED nonIndexVars

\* step 5 fails: the attempt ends in Failed{EmbeddingError}
EmbedFail(c) ==
    /\ ipc[c] = "embedding"
    /\ calls' = [calls EXCEPT ![c].embed = @ + 1]
    /\ ipc' = [ipc EXCEPT ![c] = "done"]
    /\ result' = [result EXCEPT ![c] = "failed_embedding"]
    /\ inflight' = inflight \ {target[c]}
    /\ UNCHANGED <<now, store, upserts, target, fetched, vecs,
                   hist, observed>>
    /\ UNCHANGED nonIndexVars

\* steps 6-7: upsert into the collection with payload, return success
UpsertOk(c) ==
    /\ ipc[c] = "upserting"
    /\ store' = UpsertPoints(store, target[c], vecs[c].purpose,
                             vecs[c].stack, now)
    /\ upserts' = [upserts EXCEPT ![target[c]] = @ + 1]
    /\ calls' = [calls EXCEPT ![c].upsert = @ + 1]
    /\ ipc' = [ipc EXCEPT ![c] = "done"]
    /\ result' = [result EXCEPT ![c] = "indexed"]
    /\ hist' = [hist EXCEPT ![c].rec = PointsOf(store', target[c])]
    /\ inflight' = inflight \ {target[c]}
    /\ UNCHANGED <<now, target, fetched, vecs, observed>>
    /\ UNCHANGED nonIndexVars

\* a failed upsert that has written the point all the same
UpsertFailWritten(c) ==
    /\ ipc[c] = "upserting"
    /\ store' = UpsertPoints(store, target[c], vecs[c].purpose,
                             vecs[c].stack, now)
    /\ calls' = [calls EXCEPT ![c].upsert = @ + 1]
    /\ ipc' = [ipc EXCEPT ![c] = "done"]
    /\ result' = [result EXCEPT ![c] = "failed_store"]
    /\ inflight' = inflight \ {target[c]}
    /\ UNCHANGED <<now, upserts, target, fetched, vecs, hist, observed>>
    /\ UNCHANGED nonIndexVars

\* step 6 fails (store unavailable or timed out): nothing is written
UpsertFail(c) ==
    /\ ipc[c] = "upserting"
    /\ calls' = [calls EXCEPT ![c].upsert = @ + 1]
    /\ ipc' = [ipc EXCEPT ![c] = "done"]
    /\ result' = [result EXCEPT ![c] = "failed_store"]
    /\ inflight' = inflight \ {target[c]}
    /\ UNCHANGED <<now, store, upserts, target, fetched, vecs,
                   hist, observed>>
    /\ UNCHANGED nonIndexVars

\* the caller has its IndexResult
IndexReturn(c) ==
    /\ ipc[c] = "done"
    /\ ipc' = [ipc EXCEPT ![c] = "idle"]
    /\ target' = [target EXCEPT ![c] = 1]
    /\ fetched' = [fetched EXCEPT ![c] = 0]
    /\ vecs' = [vecs EXCEPT ![c] = NoVecs]
    /\ result' = [result EXCEPT ![c] = "none"]
    /\ calls' = [calls EXCEPT ![c] = NoCalls]
    /\ hist' = [hist EXCEPT ![c] = NoHist]
    /\ UNCHANGED <<now, store, inflight, upserts, observed>>
    /\ UNCHANGED nonIndexVars

\* days pass; a call in flight ends within its timeouts (seconds), so the
\* clock moves between calls
Tick(d) ==
    /\ \A c \in Callers : ipc[c] = "idle"
    /\ now + d <= MaxTime
    /\ now' = now + d
    /\ UNCHANGED <<store, inflight, upserts, ipc, target, fetched,
                   vecs, result, calls, hist, observed>>
    /\ UNCHANGED nonIndexVars

\* a reader of the collection (repo_exists, a search) looks at one key
ReaderRead(id) ==
    /\ observed' = PointsOf(store, id)
    /\ UNCHANGED <<now, store, inflight, upserts, ipc, target,
                   fetched, vecs, result, calls, hist>>
    /\ UNCHANGED nonIndexVars

NextIndex ==
    \/ \E c \in Callers : \E id \in RepoIds : IndexCall(c, id)
    \/ \E c \in Callers : Lookup(c)
    \/ \E c \in Callers : Acquire(c)
    \/ \E c \in Callers : Recheck(c)
    \/ \E c \in Callers : FetchOk(c)
    \/ \E c \in Callers : FetchFail(c)
    \/ \E c \in Callers : Compose(c)
    \/ \E c \in Callers : EmbedOk(c)
    \/ \E c \in Callers : EmbedFail(c)
    \/ \E c \in Callers : UpsertOk(c)
    \/ \E c \in Callers : UpsertFail(c)
    \/ \E c \in Callers : IndexReturn(c)
    \/ \E d \in TickDays : Tick(d)
    \/ \E id \in RepoIds : ReaderRead(id)

SpecIndex == Init /\ [][NextIndex]_vars


(***************************************************************************)
(* index_batch: a worklist of identifiers run on a pool of workers, each   *)
(* item by one index_single_repo call.                                     *)
(***************************************************************************)
\* the IndexResult of one index_single_repo call
IndexResults == {"indexed", "already_indexed", "failed_fetch",
                 "failed_embedding", "failed_store"}
SuccessResults == {"indexed", "already_indexed"}
FailureResults == IndexResults \ SuccessResults

\* the repositories a worklist names
BatchIds == {1, 2}

\* repo_list: list[tuple[str, str]]
Worklists == UNION {[1..n -> BatchIds] : n \in 0..MaxBatch}

\* a batch that takes no new item once an item has failed
NextPendingUntilFailure(st) ==
    IF \E i \in 1..Len(st) : st[i] \in FailureResults THEN 0
    ELSE IF \E i \in 1..Len(st) : st[i] = "pending"
         THEN CHOOSE i \in 1..Len(st) :
                 /\ st[i] = "pending"
                 /\ \A j \in 1..(i - 1) : st[j] # "pending"
         ELSE 0

\* the next item of the worklist no worker has taken, 0 when there is none
NextPending(st) ==
    IF \E i \in 1..Len(st) : st[i] = "pending"
    THEN CHOOSE i \in 1..Len(st) :
            /\ st[i] = "pending"
            /\ \A j \in 1..(i - 1) : st[j] # "pending"
    ELSE 0

CountIn(st, S) == Cardinality({i \in 1..Len(st) : st[i] \in S})

\* index_batch(repo_list) is called
StartBatch ==
    /\ bpc = "idle"
    /\ \E wl \in Worklists :
          /\ worklist' = wl
          /\ statuses' = [i \in 1..Len(wl) |-> "pending"]
    /\ bpc' = "running"
    /\ UNCHANGED <<assigned, batch_result>>
    /\ UNCHANGED nonBatchVars

\* a free worker takes the next item
TakeItem(w) ==
    /\ bpc = "running"
    /\ assigned[w] = 0
    /\ NextPending(statuses) # 0
    /\ assigned' = [assigned EXCEPT ![w] = NextPending(statuses)]
    /\ statuses' = [statuses EXCEPT ![NextPending(statuses)] = "running"]
    /\ UNCHANGED <<bpc, worklist, batch_result>>
    /\ UNCHANGED nonBatchVars

\* the worker's index_single_repo call succeeds
ItemSucceeds(w) ==
    /\ bpc = "running"
    /\ assigned[w] # 0
    /\ \E r \in SuccessResults :
          statuses' = [statuses EXCEPT ![assigned[w]] = r]
    /\ assigned' = [assigned EXCEPT ![w] = 0]
    /\ UNCHANGED <<bpc, worklist, batch_result>>
    /\ UNCHANGED nonBatchVars

\* the worker's index_single_repo call fails: the failure is the status of
\* that item and the worker is free again
ItemFails(w) ==
    /\ bpc = "running"
    /\ assigned[w] # 0
    /\ \E r \in FailureResults :
          statuses' = [statuses EXCEPT ![assigned[w]] = r]
    /\ assigned' = [assigned EXCEPT ![w] = 0]
    /\ UNCHANGED <<bpc, worklist, batch_result>>
    /\ UNCHANGED nonBatchVars

\* no item is left and every worker is free: the BatchIndexResult is the
\* per-item status list and the aggregate counts
FinishBatch ==
    /\ bpc = "running"
    /\ NextPending(statuses) = 0
    /\ \A w \in Workers : assigned[w] = 0
    /\ batch_result' = [statuses |-> statuses,
                        succeeded |-> CountIn(statuses, SuccessResults),
                        failed |-> CountIn(statuses, FailureResults)]
    /\ bpc' = "done"
    /\ UNCHANGED <<worklist, statuses, assigned>>
    /\ UNCHANGED nonBatchVars

\* the caller has its BatchIndexResult
BatchReturn ==
    /\ bpc = "done"
    /\ bpc' = "idle"
    /\ worklist' = <<>>
    /\ statuses' = <<>>
    /\ batch_result' = NoBatchResult
    /\ UNCHANGED assigned
    /\ UNCHANGED nonBatchVars

NextBatch ==
    \/ StartBatch
    \/ \E w \in Workers : TakeItem(w)
    \/ \E w \in Workers : ItemSucceeds(w)
    \/ \E w \in Workers : ItemFails(w)
    \/ FinishBatch
    \/ BatchReturn

\* every call of a worker ends within its timeouts and the pool runs a
\* worker that can take a step
SpecBatch == Init /\ [][NextBatch]_vars /\ WF_vars(NextBatch)

(***************************************************************************)
(* The token-bucket limiter of the fetch client.  The provider's quota is  *)
(* Capacity tokens per Capacity * TokenUnit ticks (5000 per hour), so the  *)
(* bucket refills one token per TokenUnit ticks, continuously.             *)
(***************************************************************************)
BucketFull == Capacity * TokenUnit

\* a refill that lets the bucket grow past its capacity
RefillUncapped(tk, last, t) == tk + (t - last)

\* the tokens available at time t: one TokenUnit-th of a token per tick
\* since the last refill, up to the capacity
Refill(tk, last, t) == Min(BucketFull, tk + (t - last))

\* a call acquires a token: refill, then take one token or fail with
\* RateLimited; at most Capacity + 1 acquires are made at one instant
AcquireToken ==
    /\ burst <= Capacity
    /\ last_refill' = clock
    /\ IF Refill(tokens, last_refill, clock) >= TokenUnit
       THEN /\ tokens' = Refill(tokens, last_refill, clock) - TokenUnit
            /\ outcome' = "ok"
            /\ UNCHANGED <<burst_limited, paced_limited>>
       ELSE /\ tokens' = Refill(tokens, last_refill, clock)
            /\ outcome' = "rate_limited"
            /\ burst_limited' = burst_limited + 1
            /\ paced_limited' = (paced_limited \/ since_last = TokenUnit)
    /\ burst' = burst + 1
    /\ paced' = IF since_last = TokenUnit
                THEN Min(paced + 1, Capacity + 1) ELSE paced
    /\ since_last' = 0
    /\ UNCHANGED clock
    /\ UNCHANGED nonBucketVars

\* time passes
TickClock ==
    /\ clock < MaxTicks
    /\ clock' = clock + 1
    /\ since_last' = Min(since_last + 1, TokenUnit + 1)
    /\ burst' = 0
    /\ burst_limited' = 0
    /\ UNCHANGED <<tokens, last_refill, outcome, paced, paced_limited>>
    /\ UNCHANGED nonBucketVars

NextBucket ==
    \/ AcquireToken
    \/ TickClock

SpecBucket == Init /\ [][NextBucket]_vars

(***************************************************************************)
(* The search flow of POST /api/search around search_similar: the query    *)
(* repository is indexed on the fly when it has no stored vectors.         *)
(***************************************************************************)
FlowRepos == 1..MaxFlowRepos

\* a failed on-demand attempt answered as a success with no results
FailureResponseEmptyOk(r) == [kind |-> "ok", results |-> {}, detail |-> ""]

\* the answer to a request whose on-demand indexing attempt failed
FailureResponse(r) ==
    [kind |-> "error", results |-> {},
     detail |-> "could not index query repository"]

\* step 1: parse the repo URL to extract owner and repo name
FlowRequest(q) ==
    /\ fpc = "idle"
    /\ fquery' = q
    /\ on_demand' = FALSE
    /\ index_result' = "none"
    /\ response' = NoResponse
    /\ fpc' = "check"
    /\ UNCHANGED indexed
    /\ UNCHANGED nonFlowVars

\* step 2: check if the query repo is already indexed
CheckIndexed ==
    /\ fpc = "check"
    /\ IF fquery \in indexed
       THEN fpc' = "search" /\ UNCHANGED on_demand
       ELSE fpc' = "indexing" /\ on_demand' = TRUE
    /\ UNCHANGED <<fquery, indexed, index_result, response>>
    /\ UNCHANGED nonFlowVars

\* step 2: if not, index it on the fly; the attempt succeeds
OnDemandIndexOk ==
    /\ fpc = "indexing"
    /\ indexed' = indexed \cup {fquery}
    /\ index_result' = "indexed"
    /\ fpc' = "search"
    /\ UNCHANGED <<fquery, on_demand, response>>
    /\ UNCHANGED nonFlowVars

\* the on-demand attempt fails: the request fails with it
OnDemandIndexFail ==
    /\ fpc = "indexing"
    /\ \E r \in FailureResults :
          /\ index_result' = r
          /\ response' = FailureResponse(r)
    /\ fpc' = "responded"
    /\ UNCHANGED <<fquery, indexed, on_demand>>
    /\ UNCHANGED nonFlowVars

\* steps 3-6: retrieve the query repo's vectors, search, exclude the query
\* repo itself, return the results; the results are indexed repositories
FlowSearch ==
    /\ fpc = "search"
    /\ \E rs \in SUBSET (indexed \ {fquery}) :
          response' = [kind |-> "ok", results |-> rs, detail |-> ""]
    /\ fpc' = "responded"
    /\ UNCHANGED <<fquery, indexed, on_demand, index_result>>
    /\ UNCHANGED nonFlowVars

\* the client has the response
FlowRespond ==
    /\ fpc = "responded"
    /\ fpc' = "idle"
    /\ fquery' = 1
    /\ on_demand' = FALSE
    /\ index_result' = "none"
    /\ response' = NoResponse
    /\ UNCHANGED indexed
    /\ UNCHANGED nonFlowVars

\* background seeding indexes a repository; one that fails is not added
SeedRepo(r) ==
    /\ r \notin indexed
    /\ indexed' = indexed \cup {r}
    /\ UNCHANGED <<fpc, fquery, on_demand, index_result, response>>
    /\ UNCHANGED nonFlowVars

NextFlow ==
    \/ \E q \in FlowRepos : FlowRequest(q)
    \/ CheckIndexed
    \/ OnDemandIndexOk
    \/ OnDemandIndexFail
    \/ FlowSearch
    \/ FlowRespond
    \/ \E r \in FlowRepos : SeedRepo(r)

SpecFlow == Init /\ [][NextFlow]_vars

(***************************************************************************)
(* The api client: searchRepos and indexRepo over fetchWithTimeout.        *)
(***************************************************************************)
\* the detail texts a server sends with an error
DetailTexts == {"Repo not found", "Rate limited"}
\* what fetch rejects with: a network error, or the abort of the timeout
FetchErrors == {"Failed to fetch", "The operation was aborted."}
\* the repository arguments of a call
ClientUrls == {"facebook/react", "test/repo", "bad"}
\* the parsed bodies of an ok response
BodyData == {1, 2}

\* what awaiting fetch gives: a rejection, or a response with its ok flag
\* and its body, which parses as a JSON object or does not; a JSON error
\* body has a detail text (possibly empty) or none
FetchOutcomes ==
    {[kind |-> "rejected", ok |-> FALSE, json |-> FALSE, detail |-> None,
      data |-> 0, message |-> m] : m \in FetchErrors}
    \cup {[kind |-> "response", ok |-> TRUE, json |-> TRUE, detail |-> None,
           data |-> d, message |-> ""] : d \in BodyData}
    \cup {[kind |-> "response", ok |-> b, json |-> FALSE, detail |-> None,
           data |-> 0, message |-> ""] : b \in BOOLEAN}
    \cup {[kind |-> "response", ok |-> FALSE, json |-> TRUE, detail |-> dt,
           data |-> 0, message |-> ""] :
             dt \in {None, Some("")} \cup {Some(t) : t \in DetailTexts}}

\* "Search failed" / "Indexing failed"
ClientFallback(fn) ==
    IF fn = "searchRepos" THEN "Search failed" ELSE "Indexing failed"

\* what res.json() rejects with when the body is not JSON
JsonSyntaxError == "Unexpected token < in JSON"

\* an error message that ignores the body
ThrownMessageFallbackOnly(fn, f) == ClientFallback(fn)

\* err = await res.json().catch(() => ({ detail: fallback }));
\* new Error(err.detail || fallback): an absent or empty detail is falsy
ThrownMessage(fn, f) ==
    LET err == IF f.json THEN f.detail ELSE Some(ClientFallback(fn))
    IN  IF err # None /\ err[1] # "" THEN err[1] ELSE ClientFallback(fn)

\* the outcome of searchRepos / indexRepo given what fetch gave
ClientOutcome(fn, f) ==
    IF f.kind = "rejected"
    THEN [kind |-> "thrown", value |-> 0, message |-> f.message]
    ELSE IF ~f.ok
    THEN [kind |-> "thrown", value |-> 0, message |-> ThrownMessage(fn, f)]
    ELSE IF f.json
    THEN [kind |-> "returned", value |-> f.data, message |-> ""]
    ELSE [kind |-> "thrown", value |-> 0, message |-> JsonSyntaxError]

\* searchRepos(params) or indexRepo(repo_url) is called: fetchWithTimeout
\* sends the POST request
ClientCall(fn, u) ==
    /\ kpc = "idle"
    /\ kfn' = fn
    /\ kurl' = u
    /\ kpc' = "fetching"
    /\ UNCHANGED <<fetched_response, client_outcome>>
    /\ UNCHANGED nonClientVars

\* fetch resolves with a response
FetchResolves ==
    /\ kpc = "fetching"
    /\ \E f \in FetchOutcomes :
          /\ f.kind = "response"
          /\ fetched_response' = f
    /\ kpc' = "settled"
    /\ UNCHANGED <<kfn, kurl, client_outcome>>
    /\ UNCHANGED nonClientVars

\* fetch rejects (no connection, or the timeout aborted it)
FetchRejects ==
    /\ kpc = "fetching"
    /\ \E f \in FetchOutcomes :
          /\ f.kind = "rejected"
          /\ fetched_response' = f
    /\ kpc' = "settled"
    /\ UNCHANGED <<kfn, kurl, client_outcome>>
    /\ UNCHANGED nonClientVars

\* the rest of the function: the ok test, the body, return or throw
ClientSettles ==
    /\ kpc = "settled"
    /\ client_outcome' = ClientOutcome(kfn, fetched_response)
    /\ kpc' = "done"
    /\ UNCHANGED <<kfn, kurl, fetched_response>>
    /\ UNCHANGED nonClientVars

\* the caller has the value or the error
ClientReturn ==
    /\ kpc = "done"
    /\ kpc' = "idle"
    /\ kfn' = "searchRepos"
    /\ kurl' = "bad"
    /\ fetched_response' = NoFetch
    /\ client_outcome' = NoClientOutcome
    /\ UNCHANGED nonClientVars

NextClient ==
    \/ \E fn \in {"searchRepos", "indexRepo"} : \E u \in ClientUrls :
          ClientCall(fn, u)
    \/ FetchResolves
    \/ FetchRejects
    \/ ClientSettles
    \/ ClientReturn

SpecClient == Init /\ [][NextClient]_vars

(***************************************************************************)
(* The web client: App with SearchInput and WeightSliders.  A weight is a  *)
(* double; it is kept in hundredths (0.7 is 70).  The result of a double   *)
(* operation is the exact value with a rounding error, counted in          *)
(* 1/Micro of a hundredth.                                                 *)
(***************************************************************************)
\* the characters of a text: the space and a visible character
Chars == {" ", "a"}

RECURSIVE TrimStart(_)
TrimStart(s) ==
    IF s # <<>> /\ Head(s) = " " THEN TrimStart(Tail(s)) ELSE s

RECURSIVE TrimEnd(_)
TrimEnd(s) ==
    IF s # <<>> /\ s[Len(s)] = " "
    THEN TrimEnd(SubSeq(s, 1, Len(s) - 1)) ELSE s

\* a trim of the leading whitespace only
TrimLeadingOnly(s) == TrimStart(s)

\* url.trim()
Trim(s) == TrimEnd(TrimStart(s))

\* an input that stays enabled
InputDisabledNever(ld) == FALSE

\* <input disabled={isLoading}>
InputDisabled(ld) == ld

\* <button type="submit" disabled={isLoading || !url.trim()}>
ButtonDisabled(ld, u) == ld \/ Trim(u) = <<>>

\* {loading && <LoadingState />}
LoadingShown(ld) == ld

\* {error && <div role="alert">...{error}</div>}: null and "" are falsy
AlertShown(err) == err # None /\ err[1] # ""

\* {searchResult && !loading && <ResultsList results={searchResult.results}>}
ResultsShown(sr, ld) == sr # None /\ ~ld

Micro == 1000
\* the rounding error of a double operation
FloatErr == {-1, 0, 1}

\* a rounding towards minus infinity
MathFloor(x) == x \div Micro

\* Math.round: the nearest integer, a half rounding up
MathRound(x) == (x + Micro \div 2) \div Micro

\* Math.round((1 - purposeWeight) * 100) / 100, in hundredths
StackWeights(pw) == {MathRound((100 - pw) * Micro + e) : e \in FloatErr}

\* const purposePct = Math.round(purposeWeight * 100)
PurposePcts(pw) == {MathRound(pw * Micro + e) : e \in FloatErr}

\* const stackPct = Math.round(stackWeight * 100)
StackPcts(pw) ==
    {MathRound(sw * Micro + e) : sw \in StackWeights(pw), e \in FloatErr}

\* what WeightSliders shows for a purposeWeight
WeightView(pw) ==
    {[purposePct |-> pp, stackPct |-> sp] :
        pp \in PurposePcts(pw), sp \in StackPcts(pw)}

\* <input type="range" min="0" max="100">
SliderPositions == 0..100

\* the SearchResponse of a parsed body
SearchResponseOf(d) ==
    [query_repo |-> "test/repo",
     results |-> IF d = 1 THEN <<>> ELSE <<"other/repo">>,
     indexed_count |-> 100,
     search_time_ms |-> 42]

\* a handleSearch that keeps the error of the search before
ErrorAtStartKept(err) == err

\* setError(null)
ErrorAtStart(err) == None

\* a handleSearch that keeps the result of the search before
ResultAtStartKept(sr) == sr

\* setSearchResult(null)
ResultAtStart(sr) == None

\* e instanceof Error ? e.message : "Search failed"; what the client throws
\* is an Error
CatchMessage(o) == o.message

\* a handleSearch that sends the request without resetting the state
HandleSearchWithoutReset(u) ==
    /\ loading' = TRUE
    /\ UNCHANGED <<error, searchResult>>
    /\ \E ws \in StackWeights(purposeWeight) :
          outstanding' = Append(outstanding,
                                [repo_url |-> u,
                                 weight_purpose |-> purposeWeight,
                                 weight_stack |-> ws,
                                 limit |-> 20,
                                 min_stars |-> 0])
    /\ slides' = 0
    /\ lastOutcome' = NoOutcome

\* handleSearch(url) up to its await: the state is reset and the request
\* is sent
HandleSearch(u) ==
    /\ loading' = TRUE
    /\ error' = ErrorAtStart(error)
    /\ searchResult' = ResultAtStart(searchResult)
    /\ \E ws \in StackWeights(purposeWeight) :
          outstanding' = Append(outstanding,
                                [repo_url |-> u,
                                 weight_purpose |-> purposeWeight,
                                 weight_stack |-> ws,
                                 limit |-> 20,
                                 min_stars |-> 0])
    /\ slides' = 0
    /\ lastOutcome' = NoOutcome

\* handleSubmit: if (url.trim()) onSearch(url.trim())
HandleSubmit ==
    IF Trim(url) # <<>>
    THEN /\ HandleSearch(Trim(url))
         /\ lastSubmit' = [fired |-> TRUE, text |-> url, called |-> TRUE,
                           arg |-> Trim(url),
                           alert |-> AlertShown(error),
                           results |-> ResultsShown(searchResult, loading)]
         /\ UNCHANGED <<url, purposeWeight>>
    ELSE /\ lastSubmit' = [fired |-> TRUE, text |-> url, called |-> FALSE,
                           arg |-> <<>>,
                           alert |-> AlertShown(error),
                           results |-> ResultsShown(searchResult, loading)]
         /\ UNCHANGED <<url, loading, error, searchResult, purposeWeight,
                        outstanding, slides, lastOutcome>>

\* onChange of the text input: a character is typed
TypeChar(c) ==
    /\ ~InputDisabled(loading)
    /\ Len(url) < MaxLen
    /\ url' = Append(url, c)
    /\ lastSubmit' = NoSubmit
    /\ UNCHANGED <<loading, error, searchResult, purposeWeight, outstanding,
                   slides, lastOutcome>>
    /\ UNCHANGED nonAppVars

\* onChange of the text input: the last character is deleted
DeleteChar ==
    /\ ~InputDisabled(loading)
    /\ url # <<>>
    /\ url' = SubSeq(url, 1, Len(url) - 1)
    /\ lastSubmit' = NoSubmit
    /\ UNCHANGED <<loading, error, searchResult, purposeWeight, outstanding,
                   slides, lastOutcome>>
    /\ UNCHANGED nonAppVars

\* the submit button is clicked
SubmitByClick ==
    /\ ~ButtonDisabled(loading, url)
    /\ HandleSubmit
    /\ UNCHANGED nonAppVars

\* Enter is pressed in the text input
SubmitByEnter ==
    /\ ~InputDisabled(loading)
    /\ HandleSubmit
    /\ UNCHANGED nonAppVars

\* onChange of the range input: onWeightChange(Number(value) / 100); the
\* slider moves one step at a time (an arrow key; a drag is a run of steps)
SlideWeight(p) ==
    /\ p \in {purposeWeight - 1, purposeWeight + 1}
    /\ outstanding # <<>> => slides < MaxSlides
    /\ purposeWeight' = p
    /\ slides' = IF outstanding # <<>> THEN slides + 1 ELSE 0
    /\ UNCHANGED <<url, loading, error, searchResult, outstanding,
                   lastSubmit, lastOutcome>>
    /\ UNCHANGED nonAppVars

\* a request without its i-th element
RemoveAt(seq, i) == SubSeq(seq, 1, i - 1) \o SubSeq(seq, i + 1, Len(seq))

\* searchRepos returns: setSearchResult(result), then setLoading(false)
SearchSucceeds ==
    /\ \E i \in 1..Len(outstanding) : \E f \in FetchOutcomes :
          /\ ClientOutcome("searchRepos", f).kind = "returned"
          /\ searchResult'
                = Some(SearchResponseOf(ClientOutcome("searchRepos", f).value))
          /\ lastOutcome' = [kind |-> "success",
                             response |-> searchResult',
                             message |-> None,
                             detail |-> None]
          /\ outstanding' = RemoveAt(outstanding, i)
    /\ loading' = FALSE
    /\ slides' = 0
    /\ lastSubmit' = NoSubmit
    /\ UNCHANGED <<url, error, purposeWeight>>
    /\ UNCHANGED nonAppVars

\* searchRepos throws: setError(message), then setLoading(false)
SearchFails ==
    /\ \E i \in 1..Len(outstanding) : \E f \in FetchOutcomes :
          /\ ClientOutcome("searchRepos", f).kind = "thrown"
          /\ error' = Some(CatchMessage(ClientOutcome("searchRepos", f)))
          /\ lastOutcome' = [kind |-> "failure",
                             response |-> None,
                             message |-> Some(ClientOutcome("searchRepos",
                                                            f).message),
                             detail |-> f.detail]
          /\ outstanding' = RemoveAt(outstanding, i)
    /\ loading' = FALSE
    /\ slides' = 0
    /\ lastSubmit' = NoSubmit
    /\ UNCHANGED <<url, searchResult, purposeWeight>>
    /\ UNCHANGED nonAppVars

NextApp ==
    \/ \E c \in Chars : TypeChar(c)
    \/ DeleteChar
    \/ SubmitByClick
    \/ SubmitByEnter
    \/ \E p \in SliderPositions : SlideWeight(p)
    \/ SearchSucceeds
    \/ SearchFails

SpecApp == Init /\ [][NextApp]_vars

(***************************************************************************)
(* The useTheme hook, with localStorage and the system preference.         *)
(***************************************************************************)
\* localStorage.getItem(STORAGE_KEY): null, a theme, or anything else
SavedValues == {"null", "light", "dark", "other"}

\* an initial theme that looks at the system preference only
GetInitialThemeFromPreference(sv, pd) == IF pd THEN "dark" ELSE "light"

\* getInitialTheme(): the saved theme when it is one, the system preference
\* otherwise
GetInitialTheme(sv, pd) ==
    IF sv = "light" \/ sv = "dark" THEN sv
    ELSE IF pd THEN "dark" ELSE "light"

\* an effect with an empty dependency list: it runs after the mount only
EffectRunsOnMountOnly(isMount, prev, next) == isMount

\* useEffect(..., [theme]): the effect runs after the first render and after
\* every render in which theme has changed
EffectRuns(isMount, prev, next) == isMount \/ prev # next

\* the data-theme attribute of the document root after a render: the effect
\* sets it to the rendered theme when it runs
DataThemeAfter(isMount, prev, next, attr) ==
    IF EffectRuns(isMount, prev, next) THEN next ELSE attr

\* a toggle that always goes dark
NextThemeDark(prev) == "dark"

\* const next = prev === 'light' ? 'dark' : 'light'
NextTheme(prev) == IF prev = "light" THEN "dark" ELSE "light"

\* the hook mounts: useState(getInitialTheme), then the effect sets the
\* data-theme attribute
MountTheme ==
    /\ ~mounted
    /\ mounted' = TRUE
    /\ theme' = GetInitialTheme(saved, prefersDark)
    /\ data_theme' = DataThemeAfter(TRUE, theme, theme', data_theme)
    /\ themeHist' = <<theme'>>
    /\ lastEvent' = "mount"
    /\ UNCHANGED <<saved, prefersDark>>
    /\ UNCHANGED nonThemeVars

\* toggleTheme(): the updater stores the next theme and returns it, then
\* the effect sets the data-theme attribute
ToggleTheme ==
    /\ mounted
    /\ Len(themeHist) <= MaxToggles
    /\ theme' = NextTheme(theme)
    /\ saved' = NextTheme(theme)
    /\ data_theme' = DataThemeAfter(FALSE, theme, theme', data_theme)
    /\ themeHist' = Append(themeHist, theme')
    /\ lastEvent' = "toggle"
    /\ UNCHANGED <<mounted, prefersDark>>
    /\ UNCHANGED nonThemeVars

\* the page is closed or reloaded
UnmountTheme ==
    /\ mounted
    /\ mounted' = FALSE
    /\ theme' = "light"
    /\ data_theme' = "null"
    /\ themeHist' = <<>>
    /\ lastEvent' = "unmount"
    /\ UNCHANGED <<saved, prefersDark>>
    /\ UNCHANGED nonThemeVars

\* the entry is written or removed from outside the hook (another tab, the
\* user clearing the site's data)
StorageWrite(v) ==
    /\ v # saved
    /\ saved' = v
    /\ lastEvent' = "storage"
    /\ UNCHANGED <<mounted, theme, prefersDark, data_theme, themeHist>>
    /\ UNCHANGED nonThemeVars

\* the system's colour scheme changes
PreferenceChange ==
    /\ prefersDark' = ~prefersDark
    /\ lastEvent' = "preference"
    /\ UNCHANGED <<mounted, theme, saved, data_theme, themeHist>>
    /\ UNCHANGED nonThemeVars

NextTheming ==
    \/ MountTheme
    \/ ToggleTheme
    \/ UnmountTheme
    \/ \E v \in SavedValues : StorageWrite(v)
    \/ PreferenceChange

SpecTheme == Init /\ [][NextTheming]_vars

(***************************************************************************)
(* Properties of the search.                                               *)
(***************************************************************************)
InSeq(seq, id) == \E i \in 1..Len(seq) : seq[i].id = id

\* the store's score of a candidate in one result set, 0.0 when absent
StoreScore(hits, id) ==
    IF InSeq(hits, id) THEN hits[IndexOfId(hits, id)].score ELSE 0

Occurrences(seq, id) == Cardinality({i \in 1..Len(seq) : seq[i].id = id})

\* C1: every candidate of the purpose result set or of the stack result set
\* is in the merged set exactly once, with the store's score in each
\* dimension it appeared in and 0.0 in the dimension it is missing from
C1_MergeKeepsEveryCandidate ==
    spc = "done" =>
        /\ \A id \in Ids :
              (InSeq(purpose_results, id) \/ InSeq(stack_results, id)) =>
                  /\ Occurrences(scores, id) = 1
                  /\ scores[IndexOfId(scores, id)].purpose
                        = StoreScore(purpose_results, id)
                  /\ scores[IndexOfId(scores, id)].stack
                        = StoreScore(stack_results, id)
        /\ \A i \in 1..Len(scores) :
              InSeq(purpose_results, scores[i].id)
                  \/ InSeq(stack_results, scores[i].id)

\* a search whose merged set holds a purpose-only and a stack-only candidate
C1_Witness ==
    /\ spc = "done"
    /\ \E a, b \in Ids :
          /\ InSeq(purpose_results, a) /\ ~InSeq(stack_results, a)
          /\ InSeq(scores, a) /\ scores[IndexOfId(scores, a)].stack = 0
          /\ InSeq(stack_results, b) /\ ~InSeq(purpose_results, b)
          /\ InSeq(scores, b) /\ scores[IndexOfId(scores, b)].purpose = 0

\* C2: the similarity score of every ranked candidate is
\* weight_purpose * purpose_score + weight_stack * stack_score, each
\* per-dimension score being the store's score or 0.0 when absent
C2_WeightedSum ==
    spc = "done" =>
        \A i \in 1..Len(ranked) :
            ranked[i].score
                = w_purpose * StoreScore(purpose_results, ranked[i].id)
                  + w_stack * StoreScore(stack_results, ranked[i].id)

\* purpose 0.9 and stack 0.2 at weights 0.7/0.3 give 0.69
C2_Witness ==
    /\ spc = "done"
    /\ w_purpose = 70 /\ w_stack = 30
    /\ \E i \in 1..Len(results) :
          /\ StoreScore(purpose_results, results[i].id) = 90
          /\ StoreScore(stack_results, results[i].id) = 20
          /\ results[i].score = 6900

\* C3: every returned result scores at least min_score; a merged candidate
\* is retained by the filter exactly when its score is at least min_score,
\* so one scoring exactly min_score is retained
C3_MinScoreFilter ==
    spc = "done" =>
        /\ \A i \in 1..Len(results) : results[i].score >= min_score
        /\ \A i \in 1..Len(scores) :
              InSeq(ranked, scores[i].id)
                  <=> (w_purpose * scores[i].purpose
                         + w_stack * scores[i].stack >= min_score)

\* a candidate scoring 0.69 returned at min_score 0.69
C3_Witness ==
    /\ spc = "done"
    /\ min_score = 6900
    /\ \E i \in 1..Len(results) : results[i].score = 6900

\* C4: the query repository is never in the result list of the response
C4_QueryExcluded ==
    spc = "done" => ~InSeq(results, qid)

\* search_similar returned the query repository among others
C4_Witness ==
    /\ spc = "done"
    /\ InSeq(returned, qid)
    /\ results # <<>>

\* C5: the result list is ordered by descending similarity score, ties by
\* descending star count and then by identifier
C5_TieBreakOrder ==
    spc = "done" =>
        \A i, j \in 1..Len(results) :
            i < j =>
                \/ results[i].score > results[j].score
                \/ /\ results[i].score = results[j].score
                   /\ results[i].payload.stars > results[j].payload.stars
                \/ /\ results[i].score = results[j].score
                   /\ results[i].payload.stars = results[j].payload.stars
                   /\ results[i].id < results[j].id

\* the candidates a search would return by the specified algorithm: score at
\* least min_score and not the query repository
Eligible == SelectSeq(ranked, LAMBDA r : r.id # qid)

\* C6: the results are the first limit entries of the filtered, sorted
\* candidate list
C6_FirstLimitEntries ==
    spc = "done" =>
        /\ Len(results) <= limit
        /\ results = SubSeq(Eligible, 1, Min(limit, Len(Eligible)))

\* C7: with weight_purpose = 1 and weight_stack = 0 the candidates are in
\* the order of their purpose scores: a higher purpose score comes first,
\* and equal purpose scores keep the order of the merge
C7_PurposeOnlyOrder ==
    (spc = "done" /\ w_purpose = 100 /\ w_stack = 0) =>
        \A i, j \in 1..Len(ranked) :
            i < j =>
                LET pi == StoreScore(purpose_results, ranked[i].id)
                    pj == StoreScore(purpose_results, ranked[j].id)
                IN  \/ pi > pj
                    \/ /\ pi = pj
                       /\ IndexOfId(scores, ranked[i].id)
                             < IndexOfId(scores, ranked[j].id)

\* a purpose-only search ranking a candidate above one with the higher
\* stack score
C7_Witness ==
    /\ spc = "done" /\ w_purpose = 100 /\ w_stack = 0
    /\ \E i, j \in 1..Len(results) :
          /\ i < j
          /\ StoreScore(purpose_results, results[i].id)
                > StoreScore(purpose_results, results[j].id)
          /\ StoreScore(stack_results, results[i].id)
                < StoreScore(stack_results, results[j].id)


(***************************************************************************)
(* Properties of the indexing orchestrator.                                *)
(***************************************************************************)
InPipeline(c) == ipc[c] \in {"recheck", "fetching", "embedding", "upserting"}

Succeeded(c) == ipc[c] = "done" /\ result[c] \in {"indexed", "already_indexed"}

\* C8: a call for a repository whose record was not older than the
\* staleness threshold when the call arrived makes no fetch, no embedding
\* call and no upsert, never enters the pipeline, and returns
\* already_indexed
C8_FreshCallDoesNoWork ==
    \A c \in Callers :
        (ipc[c] # "idle" /\ hist[c].young) =>
            /\ ipc[c] \in {"lookup", "done"}
            /\ calls[c] = NoCalls
            /\ ~hist[c].ran
            /\ ipc[c] = "done" => result[c] = "already_indexed"

\* a second call within the staleness window has returned
C8_Witness ==
    \E c \in Callers :
        /\ ipc[c] = "done" /\ hist[c].young
        /\ result[c] = "already_indexed"
        /\ upserts[target[c]] >= 1
        /\ calls[c] = NoCalls

C11_BatchProcessesEveryItem ==
    /\ [](bpc = "done" =>
            /\ Len(batch_result.statuses) = Len(worklist)
            /\ \A i \in 1..Len(worklist) :
                  batch_result.statuses[i] \in IndexResults
            /\ batch_result.succeeded + batch_result.failed = Len(worklist)
            /\ batch_result.failed
                  = CountIn(batch_result.statuses, FailureResults))
    /\ (bpc = "running") ~> (bpc = "done")

\* a batch whose first item failed and whose later items were indexed
C11_Witness ==
    /\ bpc = "done"
    /\ Len(worklist) = MaxBatch
    /\ batch_result.statuses[1] \in FailureResults
    /\ \A i \in 2..Len(worklist) : batch_result.statuses[i] = "indexed"

C13_IndexFailureFailsSearch ==
    /\ (fpc = "responded" /\ on_demand /\ index_result \in FailureResults) =>
          /\ response.kind = "error"
          /\ response.results = {}
    /\ response.kind = "ok" =>
          /\ fquery \in indexed
          /\ response.results \subseteq indexed \ {fquery}

\* the on-demand attempt failed while other repositories were indexed
C13_Witness ==
    /\ fpc = "responded"
    /\ on_demand
    /\ index_result = "failed_embedding"
    /\ response.kind = "error"
    /\ indexed # {}
    /\ fquery \notin indexed

(***************************************************************************)
(* Properties of the api client.                                           *)
(***************************************************************************)
\* C18: a call returns a value only for an ok response, and the value is
\* the parsed body; for a non-ok response it throws an Error whose message
\* is the body's detail, or 'Search failed' (searchRepos) / 'Indexing
\* failed' (indexRepo) when the body is not JSON or has no detail (none, or
\* an empty one); a rejection of fetch is thrown on with its message
C18_ClientOutcomes ==
    kpc = "done" =>
        /\ client_outcome.kind \in {"returned", "thrown"}
        /\ client_outcome.kind = "returned" =>
              /\ fetched_response.kind = "response"
              /\ fetched_response.ok
              /\ client_outcome.value = fetched_response.data
        /\ (fetched_response.kind = "response" /\ ~fetched_response.ok) =>
              /\ client_outcome.kind = "thrown"
              /\ \A t \in DetailTexts :
                    (fetched_response.json
                        /\ fetched_response.detail = Some(t))
                    => client_outcome.message = t
              /\ (~fetched_response.json
                    \/ fetched_response.detail \in {None, Some("")}) =>
                    client_outcome.message
                        = (IF kfn = "searchRepos" THEN "Search failed"
                           ELSE "Indexing failed")
        /\ fetched_response.kind = "rejected" =>
              /\ client_outcome.kind = "thrown"
              /\ client_outcome.message = fetched_response.message

\* indexRepo met a non-ok response with a detail
C18_Witness ==
    /\ kpc = "done"
    /\ kfn = "indexRepo"
    /\ fetched_response.kind = "response"
    /\ ~fetched_response.ok
    /\ fetched_response.detail = Some("Rate limited")
    /\ client_outcome.kind = "thrown"
    /\ client_outcome.message = "Rate limited"

(***************************************************************************)
(* Properties of the web client.                                           *)
(***************************************************************************)
AllSpaces(t) == \A i \in 1..Len(t) : t[i] = " "

Spaces(n) == [i \in 1..n |-> " "]

\* a is t without its leading and trailing spaces
IsTrimOf(a, t) ==
    /\ a # <<>> => (a[1] # " " /\ a[Len(a)] # " ")
    /\ \E i, j \in 0..Len(t) : t = Spaces(i) \o a \o Spaces(j)

\* C14: a submit of the form calls onSearch exactly when the text has a
\* character that is not whitespace, and then with the text without its
\* leading and trailing whitespace; every request that was sent carries
\* such a text
C14_OnSearchTrimmed ==
    /\ lastSubmit.fired =>
          IF AllSpaces(lastSubmit.text)
          THEN ~lastSubmit.called
          ELSE /\ lastSubmit.called
               /\ lastSubmit.arg # <<>>
               /\ IsTrimOf(lastSubmit.arg, lastSubmit.text)
    /\ \A i \in 1..Len(outstanding) :
          /\ outstanding[i].repo_url # <<>>
          /\ IsTrimOf(outstanding[i].repo_url, outstanding[i].repo_url)

\* a text with a space before and a space after was submitted
C14_Witness ==
    /\ lastSubmit.fired
    /\ lastSubmit.called
    /\ lastSubmit.text = <<" ", "a", " ">>
    /\ lastSubmit.arg = <<"a">>
    /\ Len(outstanding) = 1
    /\ outstanding[1].repo_url = <<"a">>

\* C15: at most one search request is outstanding, loading is true exactly
\* while one is, and then the text input and the submit button are disabled
C15_OneSearchInFlight ==
    /\ Len(outstanding) <= 1
    /\ loading <=> Len(outstanding) = 1
    /\ loading =>
          /\ InputDisabled(loading)
          /\ ButtonDisabled(loading, url)

\* a search is in flight for a text that would enable the button
C15_Witness ==
    /\ loading
    /\ Len(outstanding) = 1
    /\ Trim(url) # <<>>
    /\ InputDisabled(loading)
    /\ ButtonDisabled(loading, url)

\* C16: after a search request succeeded, loading is false, error is null,
\* searchResult is the response received and its results are displayed
C16_SuccessState ==
    lastOutcome.kind = "success" =>
        /\ ~loading
        /\ ~LoadingShown(loading)
        /\ error = None
        /\ ~AlertShown(error)
        /\ searchResult = lastOutcome.response
        /\ searchResult # None
        /\ ResultsShown(searchResult, loading)

\* a response with a result was received and is displayed
C16_Witness ==
    /\ lastOutcome.kind = "success"
    /\ searchResult # None
    /\ searchResult[1].results = <<"other/repo">>
    /\ ResultsShown(searchResult, loading)

\* C17: after a search request failed, loading is false, searchResult is
\* null and no results are displayed, and the alert shows the message of
\* the error, which is the server's detail text when one was sent
C17_FailureState ==
    lastOutcome.kind = "failure" =>
        /\ ~loading
        /\ searchResult = None
        /\ ~ResultsShown(searchResult, loading)
        /\ AlertShown(error)
        /\ error = lastOutcome.message
        /\ \A t \in DetailTexts :
              lastOutcome.detail = Some(t) => error = Some(t)

\* the server answered with a detail text and the alert shows it
C17_Witness ==
    /\ lastOutcome.kind = "failure"
    /\ lastOutcome.detail = Some("Repo not found")
    /\ error = Some("Repo not found")
    /\ AlertShown(error)
    /\ searchResult = None

\* C19: for the slider position p, WeightSliders shows purpose p% and stack
\* (100 - p)%, and every search request that was sent has weight_stack =
\* 1 - weight_purpose, both weights being in [0, 1]
C19_ComplementaryWeights ==
    /\ purposeWeight \in SliderPositions
    /\ \A v \in WeightView(purposeWeight) :
          /\ v.purposePct = purposeWeight
          /\ v.stackPct = 100 - purposeWeight
    /\ \A i \in 1..Len(outstanding) :
          /\ outstanding[i].weight_purpose \in 0..100
          /\ outstanding[i].weight_stack \in 0..100
          /\ outstanding[i].weight_stack
                = 100 - outstanding[i].weight_purpose

\* a request sent with the slider at its upper end, where 1 - purposeWeight
\* is 0, and the slider moved since
C19_Witness ==
    /\ Len(outstanding) = 1
    /\ outstanding[1].weight_purpose = 100
    /\ outstanding[1].weight_stack = 0
    /\ purposeWeight = 99
    /\ [purposePct |-> 99, stackPct |-> 1] \in WeightView(purposeWeight)

(***************************************************************************)
(* Properties of useTheme.                                                 *)
(***************************************************************************)
\* C20: every toggle switches light to dark and dark to light, so the
\* theme after two consecutive toggles is the theme before them, and right
\* after a toggle the value stored under 'reporadar-theme' is the current
\* theme
C20_ToggleInvolution ==
    /\ mounted => theme = themeHist[Len(themeHist)]
    /\ \A i \in 1..Len(themeHist) : themeHist[i] \in {"light", "dark"}
    /\ \A i \in 1..(Len(themeHist) - 1) : themeHist[i + 1] # themeHist[i]
    /\ \A i \in 1..(Len(themeHist) - 2) : themeHist[i + 2] = themeHist[i]
    /\ lastEvent = "toggle" => saved = theme

\* the hook started dark from the system preference and was toggled twice
C20_Witness ==
    /\ mounted
    /\ Len(themeHist) = 3
    /\ themeHist = <<"dark", "light", "dark">>
    /\ prefersDark
    /\ lastEvent = "toggle"
    /\ saved = "dark"
    /\ theme = "dark"

\* C21: right after the hook has mounted, its theme is the saved value when
\* the saved value is 'light' or 'dark'; with no saved value or any other
\* saved value it is 'dark' when the system prefers dark and 'light' when
\* it does not
C21_InitialTheme ==
    lastEvent = "mount" =>
        /\ themeHist = <<theme>>
        /\ saved = "light" => theme = "light"
        /\ saved = "dark" => theme = "dark"
        /\ (saved \notin {"light", "dark"} /\ prefersDark) => theme = "dark"
        /\ (saved \notin {"light", "dark"} /\ ~prefersDark) => theme = "light"

\* the hook has mounted with 'light' saved on a system that prefers dark
C21_Witness ==
    /\ lastEvent = "mount"
    /\ mounted
    /\ saved = "light"
    /\ prefersDark
    /\ theme = "light"

\* C22: while the hook is mounted, that is after the initial render and
\* after every toggle, the data-theme attribute of the document root is the
\* current theme
C22_DataThemeFollowsTheme ==
    mounted => data_theme = theme

\* the hook mounted light, was toggled once, and the attribute is dark
C22_Witness ==
    /\ mounted
    /\ lastEvent = "toggle"
    /\ themeHist = <<"light", "dark">>
    /\ theme = "dark"
    /\ data_theme = "dark"

(***************************************************************************)
(* Properties of one indexing attempt.                                     *)
(***************************************************************************)
\* C23: within one attempt, composition has happened only when the four
\* fetches had all completed, an embedding call is made only after
\* composition, and an upsert call only after the embedding has produced
\* both vectors
C23_StagesOrdered ==
    \A c \in Callers :
        /\ ipc[c] \in {"embedding", "upserting"} =>
              /\ fetched[c] = NumFetches
              /\ calls[c].fetch = NumFetches
        /\ calls[c].embed >= 1 =>
              /\ fetched[c] = NumFetches
              /\ calls[c].fetch = NumFetches
        /\ ipc[c] = "embedding" => (calls[c].embed = 0 /\ vecs[c] = NoVecs)
        /\ ipc[c] = "upserting" =>
              /\ calls[c].embed = 1
              /\ vecs[c] # NoVecs
              /\ calls[c].upsert = 0
        /\ calls[c].upsert >= 1 =>
              /\ calls[c].embed = 1
              /\ vecs[c] # NoVecs

\* an attempt has gone through the four fetches, one embedding call and one
\* upsert, and returned indexed
C23_Witness ==
    \E c \in Callers :
        /\ ipc[c] = "done"
        /\ result[c] = "indexed"
        /\ calls[c] = [fetch |-> NumFetches, embed |-> 1, upsert |-> 1]

C25_NothingStaleWhileLoading ==
    loading =>
        /\ error = None
        /\ searchResult = None
        /\ ~AlertShown(error)
        /\ ~ResultsShown(searchResult, loading)
        /\ LoadingShown(loading)

\* a search is loading that was submitted while the error banner of the
\* search before it was shown
C25_Witness ==
    /\ loading
    /\ outstanding # <<>>
    /\ lastSubmit.called
    /\ lastSubmit.alert
    /\ ~lastSubmit.results
    /\ ~AlertShown(error)

=============================================================================
